---- MODULE Spec2Model ----
(***************************************************************************)
(* A model of scripts/interactions-generate-stickers.py: the chroma-key    *)
(* pipeline that turns a generated green-screen image into a transparent   *)
(* sticker.                                                                *)
(*                                                                         *)
(* A raster is a record [mode, w, h, px]; px maps 1..w*h (row-major) to a  *)
(* tuple of 8-bit channels whose length depends on the mode:               *)
(*   "RGBA" -> <<r, g, b, a>>,  "RGB" -> <<r, g, b>>,  "LA" -> <<l, a>>.   *)
(*                                                                         *)
(* rgb_to_hsv_array works in float32; here hue, saturation*100 and         *)
(* value*100 are exact rationals (numerator, denominator), so every        *)
(* comparison against a threshold is done by cross-multiplication.         *)
(* green_threshold (a float, 1.2 in the source) is carried in tenths.      *)
(***************************************************************************)
EXTENDS Integers, Sequences, FiniteSets, TLC

\* ------------------------------------------------------------------ bounds
MaxW == 3
MaxH == 3
MaxSubject == 2
MaxStrip == 2
MaxEdgePixels == 1

VARIABLES
    pc,                 \* position of the running call
    image,              \* the raster passed to the function under call
    args,               \* the other arguments of the call
    result,             \* what the call returned
    result2,            \* what the second call (other arguments / re-application) returned
    interaction,        \* client.interactions.create(...).outputs, as received
    raw_image,          \* create_sticker: raw_image
    transparent_image,  \* create_sticker: transparent_image
    disk,               \* files written so far: filename -> raster
    error,              \* the exception that left create_sticker, or "none"
    trace               \* create_sticker: the steps taken so far, in order

vars == <<pc, image, args, result, result2,
          interaction, raw_image, transparent_image, disk, error, trace>>

None == [mode |-> "none"]

\* ------------------------------------------------------------ arithmetic
Abs(x) == IF x < 0 THEN -x ELSE x
Min2(a, b) == IF a <= b THEN a ELSE b
Max2(a, b) == IF a >= b THEN a ELSE b

\* ---------------------------------------------------------------- rasters
Cells(w, h) == 1..(w * h)

\* Image.convert('RGBA'), per pixel
ToRGBAPixel(mode, p) ==
    CASE mode = "RGBA" -> p
      [] mode = "RGB"  -> <<p[1], p[2], p[3], 255>>
      [] mode = "LA"   -> <<p[1], p[1], p[1], p[2]>>

\* image.convert('RGBA')
ConvertRGBA(img) ==
    [mode |-> "RGBA", w |-> img.w, h |-> img.h,
     px |-> [i \in DOMAIN img.px |-> ToRGBAPixel(img.mode, img.px[i])]]

\* the alpha written into the blue channel
WithAlpha_blue(img, alpha) ==
    [img EXCEPT !.px = [i \in DOMAIN img.px |->
                           <<img.px[i][1], img.px[i][2], alpha[i], img.px[i][4]>>]]

\* a view of the raster's own pixel buffer, for a new array
np_array_view(img) == [base |-> "image", px |-> img.px]

\* data = np.array(image): a new array filled with the raster's pixels
np_array(img) == [base |-> "new", px |-> img.px]

\* data[:, :, 3] = alpha ; Image.fromarray(data)
WithAlpha(img, alpha) ==
    [img EXCEPT !.px = [i \in DOMAIN img.px |->
                           <<img.px[i][1], img.px[i][2], img.px[i][3], alpha[i]>>]]

\* the alpha of a pixel of a raster, when its mode has one
HasAlpha(img) == img.mode \in {"RGBA", "LA"}
AlphaOf(img, i) == IF img.mode = "RGBA" THEN img.px[i][4] ELSE img.px[i][2]

\* -------------------------------------------------------- cleanup_edges
\* polarity swapped: below the threshold opaque, at or above it transparent
cleanup_edges_inverted(img, threshold) ==
    IF img.mode # "RGBA" THEN img
    ELSE WithAlpha(img, [i \in DOMAIN img.px |->
                            IF img.px[i][4] < threshold THEN 255 ELSE 0])

\* second assignment with > for >= : alpha = threshold is left as it is
cleanup_edges_gt(img, threshold) ==
    IF img.mode # "RGBA" THEN img
    ELSE LET alpha0 == [i \in DOMAIN img.px |-> img.px[i][4]]
             alpha1 == [i \in DOMAIN img.px |->
                           IF alpha0[i] < threshold THEN 0 ELSE alpha0[i]]
             alpha2 == [i \in DOMAIN img.px |->
                           IF alpha1[i] > threshold THEN 255 ELSE alpha1[i]]
         IN  WithAlpha(img, alpha2)

\* first assignment with <= for < : alpha = threshold becomes transparent
cleanup_edges_le(img, threshold) ==
    IF img.mode # "RGBA" THEN img
    ELSE LET alpha0 == [i \in DOMAIN img.px |-> img.px[i][4]]
             alpha1 == [i \in DOMAIN img.px |->
                           IF alpha0[i] <= threshold THEN 0 ELSE alpha0[i]]
             alpha2 == [i \in DOMAIN img.px |->
                           IF alpha1[i] >= threshold THEN 255 ELSE alpha1[i]]
         IN  WithAlpha(img, alpha2)

cleanup_edges(img, threshold) ==
    IF img.mode # "RGBA" THEN img
    ELSE LET alpha0 == [i \in DOMAIN img.px |-> img.px[i][4]]
             \* alpha[alpha < threshold] = 0
             alpha1 == [i \in DOMAIN img.px |->
                           IF alpha0[i] < threshold THEN 0 ELSE alpha0[i]]
             \* alpha[alpha >= threshold] = 255, on the array just written
             alpha2 == [i \in DOMAIN img.px |->
                           IF alpha1[i] >= threshold THEN 255 ELSE alpha1[i]]
         IN  WithAlpha(img, alpha2)

\* --------------------------------------------- rgb_to_hsv_array, slips
\* the red branch without its "% 360"
rgb_to_hsv_array_nomod(p) ==
    LET r == p[1]
        g == p[2]
        b == p[3]
        max_c == Max2(Max2(r, g), b)
        min_c == Min2(Min2(r, g), b)
        delta == max_c - min_c
        mask_r == (max_c = r) /\ (delta # 0)
        h1 == IF mask_r THEN 60 * (g - b) + 360 * delta ELSE 0
        mask_g == (max_c = g) /\ (delta # 0)
        h2 == IF mask_g THEN 60 * (b - r) + 120 * delta ELSE h1
        mask_b == (max_c = b) /\ (delta # 0)
        h3 == IF mask_b THEN 60 * (r - g) + 240 * delta ELSE h2
    IN  [hn |-> h3,
         hd |-> IF delta # 0 THEN delta ELSE 1,
         sn |-> IF max_c # 0 THEN 100 * delta ELSE 0,
         sd |-> IF max_c # 0 THEN max_c ELSE 1,
         vn |-> 100 * max_c,
         vd |-> 255]

\* the green branch with r - b for b - r
rgb_to_hsv_array_sign(p) ==
    LET r == p[1]
        g == p[2]
        b == p[3]
        max_c == Max2(Max2(r, g), b)
        min_c == Min2(Min2(r, g), b)
        delta == max_c - min_c
        mask_r == (max_c = r) /\ (delta # 0)
        h1 == IF mask_r THEN (60 * (g - b) + 360 * delta) % (360 * delta) ELSE 0
        mask_g == (max_c = g) /\ (delta # 0)
        h2 == IF mask_g THEN 60 * (r - b) + 120 * delta ELSE h1
        mask_b == (max_c = b) /\ (delta # 0)
        h3 == IF mask_b THEN 60 * (r - g) + 240 * delta ELSE h2
    IN  [hn |-> h3,
         hd |-> IF delta # 0 THEN delta ELSE 1,
         sn |-> IF max_c # 0 THEN 100 * delta ELSE 0,
         sd |-> IF max_c # 0 THEN max_c ELSE 1,
         vn |-> 100 * max_c,
         vd |-> 255]

\* ----------------------------------------------------- rgb_to_hsv_array
\* One pixel of the array returned: hue = hn/hd, saturation*100 = sn/sd,
\* value*100 = vn/vd.  The three hue branches are applied in the source's
\* order, each overwriting what the branch before wrote.
rgb_to_hsv_array(p) ==
    LET r == p[1]
        g == p[2]
        b == p[3]
        max_c == Max2(Max2(r, g), b)
        min_c == Min2(Min2(r, g), b)
        delta == max_c - min_c
        h0 == 0
        mask_r == (max_c = r) /\ (delta # 0)
        h1 == IF mask_r THEN (60 * (g - b) + 360 * delta) % (360 * delta) ELSE h0
        mask_g == (max_c = g) /\ (delta # 0)
        h2 == IF mask_g THEN 60 * (b - r) + 120 * delta ELSE h1
        mask_b == (max_c = b) /\ (delta # 0)
        h3 == IF mask_b THEN 60 * (r - g) + 240 * delta ELSE h2
    IN  [hn |-> h3,
         hd |-> IF delta # 0 THEN delta ELSE 1,
         sn |-> IF max_c # 0 THEN 100 * delta ELSE 0,
         sd |-> IF max_c # 0 THEN max_c ELSE 1,
         vn |-> 100 * max_c,
         vd |-> 255]

\* ----------------------------------------------- remove_green_screen_hsv
\* hue_diff without the wrap-around step
hue_diff_linear(hn, hd, hue_center) == Abs(hn - hue_center * hd)

\* hue_diff = |h - hue_center| ; hue_diff = minimum(hue_diff, 360 - hue_diff)
\* for the hue hn/hd; the result is a numerator over hd
hue_diff(hn, hd, hue_center) ==
    LET d == Abs(hn - hue_center * hd)
    IN  Min2(d, 360 * hd - d)

\* the range test with non-strict comparisons
green_mask_hsv_nonstrict(p, hue_center, hue_range, min_saturation, min_value) ==
    LET hsv == rgb_to_hsv_array(p)
    IN  /\ hue_diff(hsv.hn, hsv.hd, hue_center) <= hue_range * hsv.hd
        /\ hsv.sn >= min_saturation * hsv.sd
        /\ hsv.vn >= min_value * hsv.vd

\* the range test with the hue window kept outside instead of inside
green_mask_hsv_outside(p, hue_center, hue_range, min_saturation, min_value) ==
    LET hsv == rgb_to_hsv_array(p)
    IN  /\ hue_diff(hsv.hn, hsv.hd, hue_center) > hue_range * hsv.hd
        /\ hsv.sn > min_saturation * hsv.sd
        /\ hsv.vn > min_value * hsv.vd

\* green_mask = (hue_diff < hue_range) & (s > min_saturation) & (v > min_value)
green_mask_hsv(p, hue_center, hue_range, min_saturation, min_value) ==
    LET hsv == rgb_to_hsv_array(p)
    IN  /\ hue_diff(hsv.hn, hsv.hd, hue_center) < hue_range * hsv.hd
        /\ hsv.sn > min_saturation * hsv.sd
        /\ hsv.vn > min_value * hsv.vd

\* the edge-adjacent cells of cell i that lie inside a w x h raster
Neighbours(i, w, h) ==
    LET x == (i - 1) % w
        y == (i - 1) \div w
    IN  {j \in Cells(w, h) :
            LET xj == (j - 1) % w
                yj == (j - 1) \div w
            IN  Abs(x - xj) + Abs(y - yj) = 1}

\* a dilation, and an erosion, that leave the mask as it is
binary_dilation_none(mask, w, h) == mask
binary_erosion_none(mask, w, h) == mask

\* scipy.ndimage.binary_dilation(mask, iterations=1): default cross-shaped
\* structure, cells outside the array count as 0
binary_dilation(mask, w, h) ==
    [i \in Cells(w, h) |-> mask[i] \/ \E j \in Neighbours(i, w, h) : mask[j]]

\* scipy.ndimage.binary_erosion(mask, iterations=1): default cross-shaped
\* structure, border_value=0: cells outside the array count as 0
binary_erosion(mask, w, h) ==
    [i \in Cells(w, h) |->
        /\ mask[i]
        /\ Cardinality(Neighbours(i, w, h)) = 4
        /\ \A j \in Neighbours(i, w, h) : mask[j]]

RECURSIVE dilate_n(_, _, _, _)
dilate_n(mask, w, h, iterations) ==
    IF iterations = 0 THEN mask
    ELSE dilate_n(binary_dilation(mask, w, h), w, h, iterations - 1)

\* the mask remove_green_screen_hsv applies, over the converted raster
hsv_mask(rgba, hue_center, hue_range, min_saturation, min_value, edge_cleanup) ==
    LET green_mask == [i \in DOMAIN rgba.px |->
                          green_mask_hsv(rgba.px[i], hue_center, hue_range,
                                         min_saturation, min_value)]
    IN  IF edge_cleanup
        THEN binary_erosion(binary_dilation(green_mask, rgba.w, rgba.h),
                            rgba.w, rgba.h)
        ELSE green_mask

\* the alpha channel built anew from the mask: opaque wherever not masked
remove_green_screen_hsv_rebuild(img, hue_center, hue_range, min_saturation, min_value, edge_cleanup) ==
    LET rgba == IF img.mode # "RGBA" THEN ConvertRGBA(img) ELSE img
        green_mask == hsv_mask(rgba, hue_center, hue_range, min_saturation,
                               min_value, edge_cleanup)
        alpha == [i \in DOMAIN rgba.px |-> IF green_mask[i] THEN 0 ELSE 255]
    IN  WithAlpha(rgba, alpha)

remove_green_screen_hsv(img, hue_center, hue_range, min_saturation, min_value, edge_cleanup) ==
    LET rgba == IF img.mode # "RGBA" THEN ConvertRGBA(img) ELSE img
        green_mask == hsv_mask(rgba, hue_center, hue_range, min_saturation,
                               min_value, edge_cleanup)
        \* alpha = data[:, :, 3].copy() ; alpha[green_mask] = 0
        alpha == [i \in DOMAIN rgba.px |->
                     IF green_mask[i] THEN 0 ELSE rgba.px[i][4]]
    IN  WithAlpha(rgba, alpha)

\* ---------------------------------------- remove_green_screen_aggressive
\* the ratio test without the dominance test
green_mask_ratio_only(p, green_threshold10) ==
    LET rb_max == Max2(p[1], p[3]) + 1
    IN  10 * p[2] > green_threshold10 * rb_max

\* rb_max = maximum(r, b) + 1 ; green_ratio = g / rb_max
\* green_mask = (green_ratio > green_threshold) & (g > r) & (g > b)
green_mask_ratio(p, green_threshold10) ==
    LET r == p[1]
        g == p[2]
        b == p[3]
        rb_max == Max2(r, b) + 1
    IN  /\ 10 * g > green_threshold10 * rb_max
        /\ g > r
        /\ g > b

\* the mask remove_green_screen_aggressive applies, over the converted raster
ratio_mask(rgba, green_threshold10, edge_pixels) ==
    LET green_mask == [i \in DOMAIN rgba.px |->
                          green_mask_ratio(rgba.px[i], green_threshold10)]
    IN  IF edge_pixels > 0
        THEN dilate_n(green_mask, rgba.w, rgba.h, edge_pixels)
        ELSE green_mask

\* the alpha channel built anew from the mask: opaque wherever not masked
remove_green_screen_aggressive_rebuild(img, green_threshold10, edge_pixels) ==
    LET rgba == IF img.mode # "RGBA" THEN ConvertRGBA(img) ELSE img
        green_mask == ratio_mask(rgba, green_threshold10, edge_pixels)
        alpha == [i \in DOMAIN rgba.px |-> IF green_mask[i] THEN 0 ELSE 255]
    IN  WithAlpha(rgba, alpha)

remove_green_screen_aggressive(img, green_threshold10, edge_pixels) ==
    LET rgba == IF img.mode # "RGBA" THEN ConvertRGBA(img) ELSE img
        green_mask == ratio_mask(rgba, green_threshold10, edge_pixels)
        alpha == [i \in DOMAIN rgba.px |->
                     IF green_mask[i] THEN 0 ELSE rgba.px[i][4]]
    IN  WithAlpha(rgba, alpha)

\* ============================================================ file names
\* A file name is a sequence of pieces; ".png" and ".PNG" are the pieces
\* str.replace and the extension lookup of Image.save tell apart.
OutputNames == {<<"cat", ".png">>, <<"cat", ".PNG">>, <<"cat">>}

\* output_filename.replace('.png', '_raw.png')
RawName(name) ==
    [k \in DOMAIN name |-> IF name[k] = ".png" THEN "_raw.png" ELSE name[k]]

FileNames == OutputNames \cup {RawName(n) : n \in OutputNames}

\* Image.save(filename) without a format: the format comes from the
\* lower-cased extension, and an unknown extension raises ValueError
SaveFormat(name) ==
    IF name[Len(name)] \in {".png", ".PNG", "_raw.png"} THEN "PNG" ELSE "unknown"

\* ================================================================ inputs
\* the state of create_sticker while another function is under call
StickerIdle ==
    /\ interaction = <<>>
    /\ raw_image = None
    /\ transparent_image = None
    /\ disk = [f \in FileNames |-> None]
    /\ error = "none"
    /\ trace = <<>>

stickerVars == <<interaction, raw_image, transparent_image, disk, error, trace>>

\* 1 x n rasters of every pixel sequence over a pixel set
Strips(mode, pixels) ==
    UNION {{[mode |-> mode, w |-> n, h |-> 1, px |-> f] : f \in [1..n -> pixels]}
           : n \in 1..MaxStrip}

White == <<255, 255, 255>>
Green == <<0, 255, 0>>
Red == <<255, 0, 0>>
Olive == <<30, 60, 20>>
Gray == <<100, 100, 100>>

AlphaSamples == {0, 1, 127, 128, 129, 254, 255}
ThresholdSamples == {-1, 0, 1, 127, 128, 129, 255, 256}

CleanupInputs ==
    Strips("RGBA", {<<c[1], c[2], c[3], a>> : c \in {White, Green}, a \in AlphaSamples})
    \cup Strips("LA", {<<200, a>> : a \in AlphaSamples})
    \cup Strips("RGB", {White, Green})

\* ====================================================== cleanup_edges calls
CleanupInit ==
    /\ pc = "call"
    /\ image \in CleanupInputs
    /\ args \in [threshold : ThresholdSamples]
    /\ result = None
    /\ result2 = None
    /\ StickerIdle

\* result = cleanup_edges(image, threshold)
CallCleanupEdges ==
    /\ pc = "call"
    /\ result' = cleanup_edges(image, args.threshold)
    /\ pc' = "returned"
    /\ UNCHANGED <<image, args, result2, stickerVars>>

\* result2 = cleanup_edges(result, threshold)
CallCleanupEdgesAgain ==
    /\ pc = "returned"
    /\ result2' = cleanup_edges(result, args.threshold)
    /\ pc' = "returned2"
    /\ UNCHANGED <<image, args, result, stickerVars>>

CleanupNext == CallCleanupEdges \/ CallCleanupEdgesAgain

SpecCleanup == CleanupInit /\ [][CleanupNext]_vars

\* C2: after cleanup_edges, for every input raster that carries an alpha
\* channel and every threshold, every pixel's alpha in the returned raster
\* is 0 or 255.
C2_AlphaBinaryAfterCleanup ==
    (pc # "call" /\ HasAlpha(image)) =>
        \A i \in DOMAIN result.px : AlphaOf(result, i) \in {0, 255}

\* C3: on an RGBA raster cleanup_edges decides every pixel by its original
\* alpha: below the threshold -> 0, at or above the threshold -> 255.
C3_BinarizeByOriginalAlpha ==
    (pc # "call" /\ image.mode = "RGBA") =>
        /\ result.mode = "RGBA"
        /\ DOMAIN result.px = DOMAIN image.px
        /\ \A i \in DOMAIN image.px :
              result.px[i][4] = IF image.px[i][4] < args.threshold THEN 0 ELSE 255

C3_Witness ==
    /\ pc = "returned"
    /\ image.mode = "RGBA"
    /\ args.threshold = 128
    /\ \E i, j \in DOMAIN image.px :
          /\ image.px[i][4] = 127 /\ result.px[i][4] = 0
          /\ image.px[j][4] = 128 /\ result.px[j][4] = 255

\* C4: applying cleanup_edges twice with the same threshold gives the same
\* raster as applying it once.
C4_CleanupIdempotent ==
    pc = "returned2" => result2 = result

C4_Witness ==
    /\ pc = "returned2"
    /\ image.mode = "RGBA"
    /\ result # image
    /\ \E i \in DOMAIN image.px : image.px[i][4] \notin {0, 255}

\* ============================================== the hue distance, alone
\* lines 128-129 of remove_green_screen_hsv on one hue h and one hue_center,
\* both whole degrees in [0, 360)
Hues == 0..359

HueInit ==
    /\ pc = "call"
    /\ image = None
    /\ args \in [h : Hues, hue_center : Hues]
    /\ result = None
    /\ result2 = None
    /\ StickerIdle

\* hue_diff = abs(h - hue_center) ; hue_diff = minimum(hue_diff, 360 - hue_diff)
ComputeHueDiff ==
    /\ pc = "call"
    /\ result' = hue_diff(args.h, 1, args.hue_center)
    /\ pc' = "returned"
    /\ UNCHANGED <<image, args, result2, stickerVars>>

HueNext == ComputeHueDiff

SpecHue == HueInit /\ [][HueNext]_vars

\* C5: the hue distance is circular: it is min(|h-c|, 360-|h-c|), the length
\* of the shorter arc between h and c, symmetric in h and c, within [0,180],
\* and 2 for the hues 359 and 1.
C5_CircularHueDistance ==
    pc = "returned" =>
        LET h == args.h
            c == args.hue_center
        IN  /\ result = Min2(Abs(h - c), 360 - Abs(h - c))
            /\ result = Min2((h - c) % 360, (c - h) % 360)
            /\ result = hue_diff(c, 1, h)
            /\ result \in 0..180
            /\ ({h, c} = {359, 1} => result = 2)

C5_Witness ==
    /\ pc = "returned"
    /\ args.h = 359
    /\ args.hue_center = 1
    /\ result = 2

\* ======================================================= colours, scenes
\* On every colour below and every parameter set below, the float32
\* computation of the source and the exact one used here agree on each of
\* the three comparisons of the range test.
Black == <<0, 0, 0>>
Yellow == <<255, 255, 0>>       \* hue 60
Cyan == <<0, 255, 255>>         \* hue 180
Magenta == <<255, 0, 255>>      \* hue 300
Rose == <<255, 0, 128>>         \* hue just below 330
Lime70 == <<200, 240, 0>>       \* hue 70
Lime65 == <<220, 240, 0>>       \* hue 65
Teal170 == <<0, 240, 200>>      \* hue 170
Pale20 == <<204, 255, 204>>     \* saturation 20
Pale17 == <<210, 255, 210>>     \* saturation between 15 and 20
Pale15 == <<204, 240, 204>>     \* saturation 15
Dark20 == <<0, 51, 0>>          \* value 20
Dark17 == <<0, 45, 0>>          \* value between 15 and 20
GreenGray == <<100, 121, 100>>  \* a gray with a green tint

Px(c, a) == <<c[1], c[2], c[3], a>>

\* [w x h] rasters: every cell bg, but for at most MaxSubject cells of fg
Arrangements(w, h) == {S \in SUBSET Cells(w, h) : Cardinality(S) <= MaxSubject}

Scenes(mode, pairs) ==
    UNION {{[mode |-> mode, w |-> d[1], h |-> d[2],
             px |-> [i \in Cells(d[1], d[2]) |-> IF i \in S THEN pr[2] ELSE pr[1]]]
            : S \in Arrangements(d[1], d[2]), pr \in pairs}
           : d \in (1..MaxW) \X (1..MaxH)}

\* the parameters of remove_green_screen_hsv
HsvParams(c, r, s, v) ==
    [hue_center |-> c, hue_range |-> r, min_saturation |-> s, min_value |-> v]

HsvDefaults == HsvParams(120, 60, 20, 20)   \* the defaults of the signature
HsvSticker == HsvParams(120, 50, 15, 15)    \* what create_sticker passes
HsvWide == HsvParams(120, 60, 15, 15)
HsvNarrow == HsvParams(120, 50, 20, 20)
HsvRedKey == HsvParams(0, 60, 20, 20)

CallHsvWith(img, P, edge_cleanup) ==
    remove_green_screen_hsv(img, P.hue_center, P.hue_range, P.min_saturation,
                            P.min_value, edge_cleanup)

\* ===================================== remove_green_screen_hsv, per pixel
PixelColours ==
    {Green, Red, Olive, Gray, White, Black, Yellow, Cyan, Magenta, Rose, Lime70,
     Lime65, Teal170, Pale20, Pale17, Pale15, Dark20, Dark17, GreenGray}

PixelKinds ==
    {Px(c, 255) : c \in PixelColours}
    \cup {Px(Green, 100), Px(White, 100), Px(Olive, 0), Px(Red, 0)}

HsvPixelInit ==
    /\ pc = "call"
    /\ image \in Strips("RGBA", PixelKinds)
    /\ args \in [params : {HsvDefaults, HsvSticker, HsvRedKey},
                 edge_cleanup : BOOLEAN]
    /\ result = None
    /\ result2 = None
    /\ StickerIdle

\* result = remove_green_screen_hsv(image, ..., edge_cleanup)
CallRemoveGreenScreenHsv ==
    /\ pc = "call"
    /\ result' = CallHsvWith(image, args.params, args.edge_cleanup)
    /\ pc' = "returned"
    /\ UNCHANGED <<image, args, result2, stickerVars>>

HsvPixelNext == CallRemoveGreenScreenHsv

SpecHsvPixel == HsvPixelInit /\ [][HsvPixelNext]_vars

\* the three quantities of the range test on one pixel, as the conversion
\* and lines 128-129 give them, and the three strict comparisons
InHueRange(p, P) ==
    LET hsv == rgb_to_hsv_array(p)
    IN  hue_diff(hsv.hn, hsv.hd, P.hue_center) < P.hue_range * hsv.hd
OnHueBoundary(p, P) ==
    LET hsv == rgb_to_hsv_array(p)
    IN  hue_diff(hsv.hn, hsv.hd, P.hue_center) = P.hue_range * hsv.hd
AboveMinSaturation(p, P) ==
    LET hsv == rgb_to_hsv_array(p) IN hsv.sn > P.min_saturation * hsv.sd
OnSaturationBoundary(p, P) ==
    LET hsv == rgb_to_hsv_array(p) IN hsv.sn = P.min_saturation * hsv.sd
AboveMinValue(p, P) ==
    LET hsv == rgb_to_hsv_array(p) IN hsv.vn > P.min_value * hsv.vd
OnValueBoundary(p, P) ==
    LET hsv == rgb_to_hsv_array(p) IN hsv.vn = P.min_value * hsv.vd

HsvScenes ==
    Scenes("RGBA", {<<Px(Green, 255), Px(Red, 255)>>,
                    <<Px(Red, 255), Px(Green, 255)>>,
                    <<Px(Olive, 255), Px(Gray, 255)>>,
                    <<Px(Gray, 255), Px(Olive, 255)>>,
                    <<Px(Olive, 255), Px(White, 100)>>})
    \cup Scenes("RGB", {<<Green, Red>>, <<Red, Green>>})

HsvInit ==
    /\ pc = "call"
    /\ image \in HsvScenes
    /\ args \in [params : {HsvDefaults, HsvSticker}, edge_cleanup : BOOLEAN]
    /\ result = None
    /\ result2 = None
    /\ StickerIdle

HsvNext == CallRemoveGreenScreenHsv

SpecHsv == HsvInit /\ [][HsvNext]_vars

IsRgb(img, i, c) ==
    LET p == ToRGBAPixel(img.mode, img.px[i])
    IN  <<p[1], p[2], p[3]>> = c

\* a raster of opaque pure green and pure red pixels only
GreenRedRaster(img) ==
    \A i \in DOMAIN img.px :
        ToRGBAPixel(img.mode, img.px[i]) \in {Px(Green, 255), Px(Red, 255)}

\* C7: on a raster of pure green background and pure red subject pixels,
\* remove_green_screen_hsv with its default parameters (edge_cleanup on)
\* makes every green pixel transparent and no red pixel transparent.
C7_GreenRedScenario ==
    (pc = "returned" /\ args.params = HsvDefaults /\ args.edge_cleanup
        /\ GreenRedRaster(image)) =>
        \A i \in DOMAIN image.px :
            /\ IsRgb(image, i, Green) => result.px[i][4] = 0
            /\ IsRgb(image, i, Red) => result.px[i][4] # 0

\* C8: a dark olive-green (30,60,20) pixel is made transparent by
\* remove_green_screen_hsv as create_sticker calls it (hue_center 120,
\* hue_range 50, min_saturation 15, min_value 15, edge_cleanup on).
C8_OliveMasked ==
    (pc = "returned" /\ args.params = HsvSticker /\ args.edge_cleanup) =>
        \A i \in DOMAIN image.px :
            IsRgb(image, i, Olive) => result.px[i][4] = 0

\* ============== remove_green_screen_hsv, stricter and relaxed parameters
RelaxScenes ==
    Scenes("RGBA", {<<Px(Green, 255), Px(Pale17, 255)>>,
                    <<Px(Lime65, 255), Px(Green, 255)>>,
                    <<Px(Dark17, 255), Px(White, 100)>>})

HsvRelaxInit ==
    /\ pc = "call"
    /\ image \in RelaxScenes
    /\ args \in [params : {HsvDefaults, HsvSticker, HsvNarrow, HsvRedKey},
                 relaxed : {HsvDefaults, HsvSticker, HsvWide},
                 edge_cleanup : BOOLEAN]
    /\ result = None
    /\ result2 = None
    /\ StickerIdle

\* result2 = remove_green_screen_hsv(image, <the relaxed parameters>, edge_cleanup)
CallRemoveGreenScreenHsvRelaxed ==
    /\ pc = "returned"
    /\ result2' = CallHsvWith(image, args.relaxed, args.edge_cleanup)
    /\ pc' = "returned2"
    /\ UNCHANGED <<image, args, result, stickerVars>>

HsvRelaxNext == CallRemoveGreenScreenHsv \/ CallRemoveGreenScreenHsvRelaxed

SpecHsvRelax == HsvRelaxInit /\ [][HsvRelaxNext]_vars

\* Q relaxes P: same hue center, hue_range no smaller, minimums no larger
Relaxes(Q, P) ==
    /\ Q.hue_center = P.hue_center
    /\ Q.hue_range >= P.hue_range
    /\ Q.min_saturation <= P.min_saturation
    /\ Q.min_value <= P.min_value

\* C6: with the raster and hue center fixed, every pixel transparent after
\* remove_green_screen_hsv with the stricter parameters is transparent
\* after it with the relaxed ones, edge_cleanup on or off.
C6_MaskMonotone ==
    (pc = "returned2" /\ Relaxes(args.relaxed, args.params)) =>
        \A i \in DOMAIN image.px :
            result.px[i][4] = 0 => result2.px[i][4] = 0

\* relaxing added a pixel to the mask, with the morphological cleanup on
C6_Witness ==
    /\ pc = "returned2"
    /\ Relaxes(args.relaxed, args.params)
    /\ args.edge_cleanup
    /\ \E j \in DOMAIN image.px : result.px[j][4] # 0 /\ result2.px[j][4] = 0

\* ================================ remove_green_screen_aggressive calls
RatioBelow == <<99, 120, 50>>      \* green / (max(red, blue) + 1) = 1.2
RatioAbove == <<99, 121, 50>>      \* ... just above 1.2
RedTint == <<100, 80, 60>>         \* green below red, ratio 0.79

RatioScenes ==
    Scenes("RGBA", {<<Px(Green, 255), Px(Gray, 255)>>,
                    <<Px(White, 100), Px(Olive, 255)>>,
                    <<Px(RatioBelow, 255), Px(RatioAbove, 255)>>,
                    <<Px(RedTint, 255), Px(GreenGray, 100)>>,
                    <<Px(Black, 255), Px(Green, 0)>>})
    \cup Scenes("RGB", {<<Gray, Green>>})

\* green_threshold in tenths: 1.2 (the default), 1.0 and 0.5
RatioThresholds10 == {12, 10, 5}

RatioInit ==
    /\ pc = "call"
    /\ image \in RatioScenes
    /\ args \in [green_threshold10 : RatioThresholds10, edge_pixels : 0..MaxEdgePixels]
    /\ result = None
    /\ result2 = None
    /\ StickerIdle

\* result = remove_green_screen_aggressive(image, green_threshold, edge_pixels)
CallRemoveGreenScreenAggressive ==
    /\ pc = "call"
    /\ result' = remove_green_screen_aggressive(image, args.green_threshold10,
                                                args.edge_pixels)
    /\ pc' = "returned"
    /\ UNCHANGED <<image, args, result2, stickerVars>>

RatioNext == CallRemoveGreenScreenAggressive

SpecRatio == RatioInit /\ [][RatioNext]_vars

\* C9: with edge_pixels = 0, remove_green_screen_aggressive sets a pixel's
\* alpha to 0 exactly when green/(max(red,blue)+1) > green_threshold and
\* green > red and green > blue (every other pixel keeps its alpha); so a
\* pixel with green <= red or green <= blue keeps its alpha, as the gray
\* (100,100,100) does.
C9_RatioTest ==
    (pc = "returned" /\ args.edge_pixels = 0) =>
        \A i \in DOMAIN image.px :
            LET p == ToRGBAPixel(image.mode, image.px[i])
                masked == /\ 10 * p[2] > args.green_threshold10 * (Max2(p[1], p[3]) + 1)
                          /\ p[2] > p[1]
                          /\ p[2] > p[3]
            IN  /\ result.px[i][4] = IF masked THEN 0 ELSE p[4]
                /\ (p[2] <= p[1] \/ p[2] <= p[3]) => result.px[i][4] = p[4]
                /\ <<p[1], p[2], p[3]>> = Gray => result.px[i][4] = p[4]

\* a call with edge_pixels = 0 that masked a green pixel and kept a gray one
\* whose ratio alone exceeds the threshold
C9_Witness ==
    /\ pc = "returned"
    /\ args.edge_pixels = 0
    /\ args.green_threshold10 = 5
    /\ \E i, j \in DOMAIN image.px :
          /\ image.px[i] = Px(Green, 255) /\ result.px[i][4] = 0
          /\ image.px[j] = Px(Gray, 255) /\ result.px[j][4] = 255

\* ========================================================= create_sticker
\* What client.interactions.create returned: a sequence of outputs, each a
\* text or an image; an image carries the raster its payload decodes to, or
\* "corrupt" when base64 / Image.open fail on it.
TextOutput == [type |-> "text"]
ImageOutput(r) == [type |-> "image", data |-> r]
Corrupt == [mode |-> "corrupt"]

OnePixel(p) == [mode |-> "RGBA", w |-> 1, h |-> 1, px |-> [i \in Cells(1, 1) |-> p]]

GeneratedRasters ==
    Scenes("RGBA", {<<Px(Green, 255), Px(White, 100)>>,
                    <<Px(Green, 200), Px(Red, 128)>>,
                    <<Px(Olive, 255), Px(Gray, 127)>>,
                    <<Px(White, 255), Px(GreenGray, 255)>>})
    \cup Scenes("RGB", {<<Green, Red>>})
    \cup Scenes("LA", {<<<<200, 100>>, <<50, 255>>>>})

Interactions ==
    {<<>>, <<TextOutput>>, <<ImageOutput(Corrupt)>>,
     <<ImageOutput(Corrupt), ImageOutput(OnePixel(Px(Green, 255)))>>}
    \cup {<<ImageOutput(r)>> : r \in GeneratedRasters}
    \cup {<<TextOutput, ImageOutput(r)>> : r \in GeneratedRasters}

StickerInit ==
    /\ pc = "start"
    /\ image = None
    /\ args \in [output_filename : OutputNames, save_raw : BOOLEAN]
    /\ result = None
    /\ result2 = None
    /\ interaction \in Interactions
    /\ raw_image = None
    /\ transparent_image = None
    /\ disk = [f \in FileNames |-> None]
    /\ error = "none"
    /\ trace = <<>>

\* for output in interaction.outputs: if output.type == "image": ...
FirstImage(outputs) ==
    LET at == {k \in DOMAIN outputs : outputs[k].type = "image"}
    IN  IF at = {} THEN 0 ELSE CHOOSE k \in at : \A m \in at : k <= m

\* a failed generation swallowed: the run goes on with an empty raster
GenerateSticker_swallow ==
    /\ pc = "start"
    /\ LET k == FirstImage(interaction)
       IN  IF k = 0 \/ (k # 0 /\ interaction[k].data = Corrupt)
           THEN raw_image' = OnePixel(<<0, 0, 0, 0>>)
           ELSE raw_image' = interaction[k].data
    /\ pc' = "generated"
    /\ trace' = Append(trace, "generate")
    /\ UNCHANGED <<image, args, result, result2, interaction, transparent_image, disk, error>>

\* raw_image = generate_sticker(...): one call of the API, then the first
\* image output decoded, or ValueError("No image was generated")
GenerateSticker ==
    /\ pc = "start"
    /\ LET k == FirstImage(interaction)
       IN  IF k = 0
           THEN /\ error' = "ValueError"
                /\ pc' = "raised"
                /\ UNCHANGED raw_image
           ELSE IF interaction[k].data = Corrupt
           THEN /\ error' = "DecodeError"
                /\ pc' = "raised"
                /\ UNCHANGED raw_image
           ELSE /\ raw_image' = interaction[k].data
                /\ pc' = "generated"
                /\ UNCHANGED error
    /\ trace' = Append(trace, "generate")
    /\ UNCHANGED <<image, args, result, result2, interaction, transparent_image, disk>>

\* if save_raw: raw_image.save(output_filename.replace('.png', '_raw.png'))
SaveRaw ==
    /\ pc = "generated"
    /\ IF args.save_raw
       THEN IF SaveFormat(RawName(args.output_filename)) = "PNG"
            THEN /\ disk' = [disk EXCEPT ![RawName(args.output_filename)] = raw_image]
                 /\ trace' = Append(trace, "save_raw")
                 /\ pc' = "pass1"
                 /\ UNCHANGED error
            ELSE /\ error' = "ValueError"
                 /\ pc' = "raised"
                 /\ UNCHANGED <<disk, trace>>
       ELSE /\ pc' = "pass1"
            /\ UNCHANGED <<disk, trace, error>>
    /\ UNCHANGED <<image, args, result, result2, interaction, raw_image, transparent_image>>

\* transparent_image = remove_green_screen_hsv(raw_image, 120, 50, 15, 15, True)
HsvPass ==
    /\ pc = "pass1"
    /\ transparent_image' = CallHsvWith(raw_image, HsvSticker, TRUE)
    /\ trace' = Append(trace, "hsv")
    /\ pc' = "pass2"
    /\ UNCHANGED <<image, args, result, result2, interaction, raw_image, disk, error>>

\* transparent_image = remove_green_screen_aggressive(transparent_image, 1.2, 0)
AggressivePass ==
    /\ pc = "pass2"
    /\ transparent_image' = remove_green_screen_aggressive(transparent_image, 12, 0)
    /\ trace' = Append(trace, "aggressive")
    /\ pc' = "cleanup"
    /\ UNCHANGED <<image, args, result, result2, interaction, raw_image, disk, error>>

\* transparent_image = cleanup_edges(transparent_image, threshold=128)
CleanupPass ==
    /\ pc = "cleanup"
    /\ transparent_image' = cleanup_edges(transparent_image, 128)
    /\ trace' = Append(trace, "cleanup")
    /\ pc' = "save"
    /\ UNCHANGED <<image, args, result, result2, interaction, raw_image, disk, error>>

\* save_transparent_png(image, filename): image.convert('RGBA') unless RGBA
\* already, then image.save(filename, 'PNG')
save_transparent_png(img) == IF img.mode # "RGBA" THEN ConvertRGBA(img) ELSE img

\* save_transparent_png(transparent_image, output_filename) ; return transparent_image
SaveAndReturn ==
    /\ pc = "save"
    /\ disk' = [disk EXCEPT ![args.output_filename] = save_transparent_png(transparent_image)]
    /\ result' = transparent_image
    /\ trace' = Append(trace, "save")
    /\ pc' = "done"
    /\ UNCHANGED <<image, args, result2, interaction, raw_image, transparent_image, error>>

Next ==
    \/ GenerateSticker
    \/ SaveRaw
    \/ HsvPass
    \/ AggressivePass
    \/ CleanupPass
    \/ SaveAndReturn

Init == StickerInit

Spec == Init /\ [][Next]_vars

\* C1: whatever raster the generation call returned (any mode, any alpha),
\* the raster create_sticker returns and the one it saved at output_filename
\* have alpha 0 or 255 at every pixel.
C1_FinalAlphaBinary ==
    pc = "done" =>
        /\ result.mode = "RGBA"
        /\ \A i \in DOMAIN result.px : result.px[i][4] \in {0, 255}
        /\ disk[args.output_filename].mode = "RGBA"
        /\ \A i \in DOMAIN disk[args.output_filename].px :
              disk[args.output_filename].px[i][4] \in {0, 255}

\* a finished run on a generated raster that is not RGBA and has a pixel of
\* partial alpha that no pass masked
C1_Witness ==
    /\ pc = "done"
    /\ raw_image.mode = "LA"
    /\ \E i \in DOMAIN raw_image.px :
          /\ AlphaOf(raw_image, i) \notin {0, 255}
          /\ result.px[i][4] = 0
    /\ \E i \in DOMAIN raw_image.px : result.px[i][4] = 255

\* ===================================================== rgb_to_hsv_array calls
\* channel values the conversion is called on: the ends of the range, the
\* values of the colours above and a spread in between
ChannelSamples ==
    {0, 1, 2, 20, 30, 45, 51, 60, 99, 100, 101, 120, 121, 127, 128, 129,
     200, 204, 210, 220, 240, 253, 254, 255}

ConvInit ==
    /\ pc = "call"
    /\ image = None
    /\ args \in [pixel : ChannelSamples \X ChannelSamples \X ChannelSamples]
    /\ result = None
    /\ result2 = None
    /\ StickerIdle

\* hsv = rgb_to_hsv_array(rgb), on one pixel
CallRgbToHsv ==
    /\ pc = "call"
    /\ result' = rgb_to_hsv_array(args.pixel)
    /\ pc' = "returned"
    /\ UNCHANGED <<image, args, result2, stickerVars>>

\* rationals <<n, d>>, d > 0, kept in lowest terms
RECURSIVE Gcd(_, _)
Gcd(a, b) == IF b = 0 THEN a ELSE Gcd(b, a % b)
Norm(n, d) ==
    LET k == Gcd(Abs(n), d)
    IN  IF k = 0 THEN <<0, 1>> ELSE <<n \div k, d \div k>>
RMul(x, y) == Norm(x[1] * y[1], x[2] * y[2])
RAdd(x, y) == Norm(x[1] * y[2] + y[1] * x[2], x[2] * y[2])
RSub(x, y) == Norm(x[1] * y[2] - y[1] * x[2], x[2] * y[2])

\* the standard inverse: C = V*S, X = C*(1 - |H/60 mod 2 - 1|), m = V - C,
\* (R, G, B) = ((R1, G1, B1) + m) * 255 with (R1, G1, B1) picked by the
\* sextant of H; each channel a rational
hsv_to_rgb(hsv) ==
    LET S == Norm(hsv.sn, 100 * hsv.sd)
        V == Norm(hsv.vn, 100 * hsv.vd)
        C == RMul(V, S)
        sextant == hsv.hn \div (60 * hsv.hd)
        t == Abs((hsv.hn % (120 * hsv.hd)) - 60 * hsv.hd)
        X == RMul(C, Norm(60 * hsv.hd - t, 60 * hsv.hd))
        m == RSub(V, C)
        Z == <<0, 1>>
        rgb1 == CASE sextant = 0 -> <<C, X, Z>>
                  [] sextant = 1 -> <<X, C, Z>>
                  [] sextant = 2 -> <<Z, C, X>>
                  [] sextant = 3 -> <<Z, X, C>>
                  [] sextant = 4 -> <<X, Z, C>>
                  [] OTHER       -> <<C, Z, X>>
    IN  [k \in 1..3 |-> RMul(RAdd(rgb1[k], m), <<255, 1>>)]

\* rgb = hsv_to_rgb(hsv), the way back
ConvertBack ==
    /\ pc = "returned"
    /\ result2' = hsv_to_rgb(result)
    /\ pc' = "returned2"
    /\ UNCHANGED <<image, args, result, stickerVars>>

ConvNext == CallRgbToHsv \/ ConvertBack

SpecConv == ConvInit /\ [][ConvNext]_vars

\* C11: for every 8-bit RGB pixel the conversion yields hue in [0, 360),
\* saturation in [0, 100] and value in [0, 100], also where green or blue is
\* the maximum (branches without a modulo).
C11_HsvRanges ==
    pc # "call" =>
        /\ result.hd > 0 /\ result.sd > 0 /\ result.vd > 0
        /\ 0 <= result.hn /\ result.hn < 360 * result.hd
        /\ 0 <= result.sn /\ result.sn <= 100 * result.sd
        /\ 0 <= result.vn /\ result.vn <= 100 * result.vd

\* conversions through each of the three branches, at the ends of their ranges
C11_Witness ==
    /\ pc = "returned"
    /\ \/ args.pixel = <<255, 0, 1>> /\ result.hn > 359 * result.hd
       \/ args.pixel = <<0, 255, 255>> /\ result.hn = 180 * result.hd
       \/ args.pixel = <<255, 0, 255>> /\ result.hn = 300 * result.hd

\* the hue of a pixel by the textbook rule: the first maximal channel among
\* red, green, blue decides
HueFirstMax(p) ==
    LET r == p[1]
        g == p[2]
        b == p[3]
        max_c == Max2(Max2(r, g), b)
        delta == max_c - Min2(Min2(r, g), b)
    IN  IF delta = 0 THEN 0
        ELSE IF max_c = r THEN (60 * (g - b)) % (360 * delta)
        ELSE IF max_c = g THEN 60 * (b - r) + 120 * delta
        ELSE 60 * (r - g) + 240 * delta

\* the same with the last maximal channel deciding
HueLastMax(p) ==
    LET r == p[1]
        g == p[2]
        b == p[3]
        max_c == Max2(Max2(r, g), b)
        delta == max_c - Min2(Min2(r, g), b)
    IN  IF delta = 0 THEN 0
        ELSE IF max_c = b THEN 60 * (r - g) + 240 * delta
        ELSE IF max_c = g THEN 60 * (b - r) + 120 * delta
        ELSE (60 * (g - b)) % (360 * delta)

\* C12: value = max(r,g,b) (of 255, times 100), saturation = 0 when max = 0
\* and delta/max otherwise, hue = 0 when delta = 0 and otherwise the
\* three-branch hue of the maximal channel; where two channels tie for the
\* maximum every branch gives the same hue, so the order of the branches
\* does not matter.
C12_HsvFormula ==
    pc # "call" =>
        LET p == args.pixel
            max_c == Max2(Max2(p[1], p[2]), p[3])
            delta == max_c - Min2(Min2(p[1], p[2]), p[3])
        IN  /\ result.vn * 255 = 100 * max_c * result.vd
            /\ max_c = 0 => result.sn = 0
            /\ max_c # 0 => result.sn * max_c = 100 * delta * result.sd
            /\ delta = 0 => result.hn = 0
            /\ delta # 0 => result.hd = delta
            /\ result.hn = HueFirstMax(p)
            /\ result.hn = HueLastMax(p)

\* a conversion of a pixel whose red and green tie for the maximum
C12_Witness ==
    /\ pc = "returned"
    /\ args.pixel = <<255, 255, 0>>
    /\ result.hn = 60 * result.hd

\* C13: converting to HSV and back with the standard inverse formula gives
\* the original red, green and blue within 1 per channel.
C13_RoundTrip ==
    pc = "returned2" =>
        \A k \in 1..3 :
            Abs(result2[k][1] - args.pixel[k] * result2[k][2]) <= result2[k][2]

C13_Witness ==
    /\ pc = "returned2"
    /\ args.pixel = <<30, 60, 20>>
    /\ result2 = <<<<30, 1>>, <<60, 1>>, <<20, 1>>>>

\* ===================================================== the stages, one call
StageScenes ==
    Scenes("RGBA", {<<Px(Green, 255), Px(Red, 200)>>,
                    <<Px(White, 100), Px(GreenGray, 255)>>})
    \cup Scenes("RGB", {<<Green, Red>>})
    \cup Scenes("LA", {<<<<200, 100>>, <<50, 255>>>>})

StageCalls ==
    {[stage |-> "hsv", P |-> P, edge_cleanup |-> e]
        : P \in {HsvDefaults, HsvSticker}, e \in BOOLEAN}
    \cup {[stage |-> "aggressive", green_threshold10 |-> 12, edge_pixels |-> e]
             : e \in 0..MaxEdgePixels}
    \cup {[stage |-> "cleanup", threshold |-> 128]}

StagesInit ==
    /\ pc = "call"
    /\ image \in StageScenes
    /\ args \in StageCalls
    /\ result = None
    /\ result2 = None
    /\ StickerIdle

\* the raster the caller passed, once the stage has returned out: a stage
\* writes data[:, :, 3] only, data being np.array(image) of the raster it was
\* passed, or of image.convert('RGBA'), a new raster
ArgumentAfter(img, converted, out) ==
    IF np_array(img).base = "image" /\ ~converted
    THEN [img EXCEPT !.px = out.px]
    ELSE img

\* result = remove_green_screen_hsv(image, ...); result2 holds its arrays
CallStageHsv ==
    /\ pc = "call"
    /\ args.stage = "hsv"
    /\ LET rgba == IF image.mode # "RGBA" THEN ConvertRGBA(image) ELSE image
       IN  result2' =
               [hsv |-> [i \in DOMAIN rgba.px |-> rgb_to_hsv_array(rgba.px[i])],
                green_mask |-> hsv_mask(rgba, args.P.hue_center, args.P.hue_range,
                                        args.P.min_saturation, args.P.min_value,
                                        args.edge_cleanup)]
    /\ result' = CallHsvWith(image, args.P, args.edge_cleanup)
    /\ image' = ArgumentAfter(image, image.mode # "RGBA", result')
    /\ pc' = "returned"
    /\ UNCHANGED <<args, stickerVars>>

\* result = remove_green_screen_aggressive(image, ...)
CallStageAggressive ==
    /\ pc = "call"
    /\ args.stage = "aggressive"
    /\ LET rgba == IF image.mode # "RGBA" THEN ConvertRGBA(image) ELSE image
       IN  result2' =
               [green_mask |-> ratio_mask(rgba, args.green_threshold10,
                                          args.edge_pixels)]
    /\ result' = remove_green_screen_aggressive(image, args.green_threshold10,
                                                args.edge_pixels)
    /\ image' = ArgumentAfter(image, image.mode # "RGBA", result')
    /\ pc' = "returned"
    /\ UNCHANGED <<args, stickerVars>>

\* result = cleanup_edges(image, threshold)
CallStageCleanup ==
    /\ pc = "call"
    /\ args.stage = "cleanup"
    /\ result' = cleanup_edges(image, args.threshold)
    /\ image' = ArgumentAfter(image, FALSE, result')
    /\ pc' = "returned"
    /\ UNCHANGED <<args, result2, stickerVars>>

StagesNext == CallStageHsv \/ CallStageAggressive \/ CallStageCleanup

SpecStages == StagesInit /\ [][StagesNext]_vars

SameRGB(a, b) ==
    /\ DOMAIN a.px = DOMAIN b.px
    /\ \A i \in DOMAIN a.px : \A k \in 1..3 : a.px[i][k] = b.px[i][k]

\* C14: each of the three stages changes the alpha channel only: for an RGBA
\* input the returned raster has the input's width and height and the same
\* red, green and blue at every pixel, and the mask and HSV arrays built on
\* the way have the input's dimensions.
C14_StagesChangeAlphaOnly ==
    (pc = "returned" /\ image.mode = "RGBA") =>
        /\ result.mode = "RGBA"
        /\ result.w = image.w
        /\ result.h = image.h
        /\ DOMAIN result.px = Cells(image.w, image.h)
        /\ SameRGB(result, image)
        /\ args.stage \in {"hsv", "aggressive"} =>
               DOMAIN result2.green_mask = Cells(image.w, image.h)
        /\ args.stage = "hsv" => DOMAIN result2.hsv = Cells(image.w, image.h)

\* a 3 x 2 RGBA raster whose alpha a stage has changed
C14_Witness ==
    /\ pc = "returned"
    /\ image.mode = "RGBA"
    /\ image.w = 3
    /\ image.h = 2
    /\ \E i \in DOMAIN image.px : result.px[i][4] # image.px[i][4]

\* C20: a stage leaves the raster it was passed as it was; the changed alpha
\* is in the returned raster only.
C20_StagesPure == [][image' = image]_vars

\* a stage has returned a raster that differs from the one passed
C20_Witness ==
    /\ pc = "returned"
    /\ args.stage = "cleanup"
    /\ image.mode = "RGBA"
    /\ result # image

\* ================================================= create_sticker, claims
\* the generation call returned no image output, or one decode_image rejects
NoDecodableImage ==
    \/ FirstImage(interaction) = 0
    \/ interaction[FirstImage(interaction)].data = Corrupt

\* C15: when the generation call returns no output of type image, or the
\* first image payload cannot be decoded, create_sticker ends with an error
\* raised to its caller: no processing stage has run, nothing is returned
\* and no file is written at output_filename.
C15_GenerationFailurePropagates ==
    (pc # "start" /\ NoDecodableImage) =>
        /\ pc = "raised"
        /\ error # "none"
        /\ trace = <<"generate">>
        /\ raw_image = None
        /\ transparent_image = None
        /\ result = None
        /\ \A f \in FileNames : disk[f] = None

\* a run that failed on a corrupt first image although a good one followed
C15_Witness ==
    /\ pc = "raised"
    /\ Len(interaction) = 2
    /\ interaction[1].data = Corrupt
    /\ error = "DecodeError"

\* the files on disk
Written == {f \in FileNames : disk[f] # None}

\* C16: for every output_filename, a run that returns leaves, with save_raw,
\* two files: one with the raster as generated and the one at
\* output_filename with the processed raster; without save_raw it leaves
\* the processed file only.
C16_RawAndProcessedFiles ==
    pc = "done" =>
        /\ disk[args.output_filename] = save_transparent_png(result)
        /\ IF args.save_raw
           THEN /\ Cardinality(Written) = 2
                /\ \E f \in Written \ {args.output_filename} : disk[f] = raw_image
           ELSE Written = {args.output_filename}

\* the steps of a run that returns, in order
Steps(save_raw) ==
    <<"generate">> \o (IF save_raw THEN <<"save_raw">> ELSE <<>>)
                   \o <<"hsv", "aggressive", "cleanup", "save">>

\* the steps so far are the first steps of a full run, each once, and each
\* pass has worked on the result of the one before
StepsInOrder ==
    /\ Len(trace) <= Len(Steps(args.save_raw))
    /\ trace = SubSeq(Steps(args.save_raw), 1, Len(trace))
    /\ pc = "done" =>
          /\ trace = Steps(args.save_raw)
          /\ LET pass1 == CallHsvWith(raw_image, HsvSticker, TRUE)
                 pass2 == remove_green_screen_aggressive(pass1, 12, 0)
             IN  result = cleanup_edges(pass2, 128)

\* C17: the steps of create_sticker happen once each and in the order
\* generation, optional raw save, range pass, ratio pass on the range pass's
\* result, edge cleanup on the ratio pass's result, file write; and the file
\* at output_filename is not written before the edge cleanup has run.
C17_StepsOnceInOrder ==
    /\ StepsInOrder
    /\ disk[args.output_filename] # None =>
          \E k \in DOMAIN trace : trace[k] = "cleanup"

\* the masks of the two passes, over the generated raster
RangeMasked(i) ==
    hsv_mask(ConvertRGBA(raw_image), HsvSticker.hue_center, HsvSticker.hue_range, HsvSticker.min_saturation, HsvSticker.min_value, TRUE)[i]
RatioMasked(i) == ratio_mask(ConvertRGBA(raw_image), 12, 0)[i]

\* C19: once the three stages have run, a pixel's alpha is 0 if the range
\* pass masked it (after dilation and erosion), or the ratio pass masked it,
\* or its alpha as generated was below 128, and 255 otherwise; what an
\* earlier stage made transparent stays transparent in every later stage.
C19_FinalAlpha ==
    /\ pc = "pass2" =>
          \A i \in DOMAIN transparent_image.px :
              transparent_image.px[i][4] = 0 \/ ~RangeMasked(i)
    /\ pc = "cleanup" =>
          \A i \in DOMAIN transparent_image.px :
              transparent_image.px[i][4] = 0 \/ ~RatioMasked(i)
    /\ pc = "save" =>
          \A i \in DOMAIN transparent_image.px :
              transparent_image.px[i][4] =
                  IF \/ ConvertRGBA(raw_image).px[i][4] < 128
                     \/ RatioMasked(i)
                     \/ RangeMasked(i)
                  THEN 0 ELSE 255
    /\ pc = "done" => result = transparent_image

\* a finished run with an opaque pixel and a pixel of high alpha that only
\* the range pass masked
C19_Witness ==
    /\ pc = "done"
    /\ \E i, j \in DOMAIN result.px :
          /\ result.px[j][4] = 255
          /\ result.px[i][4] = 0
          /\ ConvertRGBA(raw_image).px[i][4] >= 128
          /\ RangeMasked(i)
          /\ ~RatioMasked(i)

\* ============================================ the two passes, either order
DarkGreen == <<0, 30, 0>>          \* value 11.8: outside the range test

OrderScenes ==
    Scenes("RGBA", {<<Px(Green, 255), Px(GreenGray, 255)>>,
                    <<Px(White, 200), Px(GreenGray, 255)>>,
                    <<Px(DarkGreen, 255), Px(GreenGray, 100)>>,
                    <<Px(Gray, 255), Px(RatioAbove, 255)>>})
    \cup Scenes("RGB", {<<GreenGray, Green>>})

OrderCalls ==
    [P : {HsvSticker}, edge_cleanup : BOOLEAN,
     green_threshold10 : {12}, edge_pixels : 0..MaxEdgePixels]

OrderInit ==
    /\ pc = "call"
    /\ image \in OrderScenes
    /\ args \in OrderCalls
    /\ result = None
    /\ result2 = None
    /\ StickerIdle

\* the order of create_sticker: remove_green_screen_hsv(image, ...)
RangePassFirst ==
    /\ pc = "call"
    /\ transparent_image' = CallHsvWith(image, args.P, args.edge_cleanup)
    /\ pc' = "range1"
    /\ UNCHANGED <<image, args, result, result2, interaction, raw_image, disk, error, trace>>

\* ... then remove_green_screen_aggressive on its result
RatioPassSecond ==
    /\ pc = "range1"
    /\ transparent_image' = remove_green_screen_aggressive(transparent_image, args.green_threshold10, args.edge_pixels)
    /\ pc' = "range2"
    /\ UNCHANGED <<image, args, result, result2, interaction, raw_image, disk, error, trace>>

\* ... then result = cleanup_edges(..., 128)
CleanupRangeFirst ==
    /\ pc = "range2"
    /\ result' = cleanup_edges(transparent_image, 128)
    /\ pc' = "returned"
    /\ UNCHANGED <<image, args, result2, stickerVars>>

\* the passes swapped: remove_green_screen_aggressive(image, ...)
RatioPassFirst ==
    /\ pc = "returned"
    /\ transparent_image' = remove_green_screen_aggressive(image, args.green_threshold10, args.edge_pixels)
    /\ pc' = "ratio1"
    /\ UNCHANGED <<image, args, result, result2, interaction, raw_image, disk, error, trace>>

\* ... then remove_green_screen_hsv on its result
RangePassSecond ==
    /\ pc = "ratio1"
    /\ transparent_image' = CallHsvWith(transparent_image, args.P, args.edge_cleanup)
    /\ pc' = "ratio2"
    /\ UNCHANGED <<image, args, result, result2, interaction, raw_image, disk, error, trace>>

\* ... then result2 = cleanup_edges(..., 128)
CleanupRatioFirst ==
    /\ pc = "ratio2"
    /\ result2' = cleanup_edges(transparent_image, 128)
    /\ pc' = "returned2"
    /\ UNCHANGED <<image, args, result, stickerVars>>

OrderNext ==
    \/ RangePassFirst
    \/ RatioPassSecond
    \/ CleanupRangeFirst
    \/ RatioPassFirst
    \/ RangePassSecond
    \/ CleanupRatioFirst

SpecOrder == OrderInit /\ [][OrderNext]_vars

\* the two orders as functions of the raster and the parameters
RangeFirst(img, a) ==
    LET pass1 == CallHsvWith(img, a.P, a.edge_cleanup)
        pass2 == remove_green_screen_aggressive(pass1, a.green_threshold10, a.edge_pixels)
    IN  cleanup_edges(pass2, 128)

RatioFirst(img, a) ==
    LET pass1 == remove_green_screen_aggressive(img, a.green_threshold10, a.edge_pixels)
        pass2 == CallHsvWith(pass1, a.P, a.edge_cleanup)
    IN  cleanup_edges(pass2, 128)

\* C18, as stated: there is a raster on which the ratio pass first and the
\* range pass second (same parameters, same cleanup) make transparent a
\* pixel that the range pass first and the ratio pass second leave opaque;
\* looked for among all the rasters and parameters of OrderInit once both
\* orders have been run.
C18_OrderMatters ==
    pc = "returned2" =>
        \E img \in OrderScenes, a \in OrderCalls :
            \E i \in DOMAIN img.px :
                /\ RatioFirst(img, a).px[i][4] = 0
                /\ RangeFirst(img, a).px[i][4] = 255

\* C18, amended: the order of the two passes does not affect the result:
\* range pass then ratio pass, and ratio pass then range pass, followed by
\* the same cleanup, return the same raster.
C18_OrderIrrelevant ==
    pc = "returned2" => result2 = result

\* both orders have run on a raster with a pixel only the range pass masks
\* and a pixel only the ratio pass masks
C18_Witness ==
    /\ pc = "returned2"
    /\ LET rgba == ConvertRGBA(image)
           range == hsv_mask(rgba, args.P.hue_center, args.P.hue_range,
                             args.P.min_saturation, args.P.min_value,
                             args.edge_cleanup)
           ratio == ratio_mask(rgba, args.green_threshold10, args.edge_pixels)
       IN  \E i, j \in DOMAIN rgba.px :
               /\ range[i] /\ ~ratio[i] /\ rgba.px[i][4] = 255
               /\ ratio[j] /\ ~range[j] /\ rgba.px[j][4] = 255
               /\ result.px[i][4] = 0
               /\ result.px[j][4] = 0

\* ================================================= divisions, pixel by pixel
\* the red branch taken wherever red is the maximum, gray pixels included
rgb_to_hsv_divisors_unmasked(p) ==
    LET r == p[1]
        g == p[2]
        b == p[3]
        max_c == Max2(Max2(r, g), b)
        min_c == Min2(Min2(r, g), b)
        delta == max_c - min_c
        mask_r == (max_c = r)
        mask_g == (max_c = g) /\ (delta # 0)
        mask_b == (max_c = b) /\ (delta # 0)
    IN  (IF mask_r THEN {delta} ELSE {})
        \cup (IF mask_g THEN {delta} ELSE {})
        \cup (IF mask_b THEN {delta} ELSE {})
        \cup (IF max_c # 0 THEN {max_c} ELSE {})

\* the divisors rgb_to_hsv_array divides by at a pixel (in units of 1/255):
\* delta[mask_r], delta[mask_g], delta[mask_b] and max_c[max_c != 0]
rgb_to_hsv_divisors(p) ==
    LET r == p[1]
        g == p[2]
        b == p[3]
        max_c == Max2(Max2(r, g), b)
        min_c == Min2(Min2(r, g), b)
        delta == max_c - min_c
        mask_r == (max_c = r) /\ (delta # 0)
        mask_g == (max_c = g) /\ (delta # 0)
        mask_b == (max_c = b) /\ (delta # 0)
    IN  (IF mask_r THEN {delta} ELSE {})
        \cup (IF mask_g THEN {delta} ELSE {})
        \cup (IF mask_b THEN {delta} ELSE {})
        \cup (IF max_c # 0 THEN {max_c} ELSE {})

\* rb_max = np.maximum(r, b) + 1, the divisor of green_ratio = g / rb_max
ratio_divisor(p) == Max2(p[1], p[3]) + 1

ArithInit ==
    /\ pc = "call"
    /\ image = None
    /\ args \in [pixel : ChannelSamples \X ChannelSamples \X ChannelSamples]
    /\ result = None
    /\ result2 = None
    /\ StickerIdle

\* the divisions of both passes at one pixel; a zero divisor is the
\* arithmetic error
EvaluateDivisions ==
    /\ pc = "call"
    /\ LET divisors == rgb_to_hsv_divisors(args.pixel) \cup {ratio_divisor(args.pixel)}
       IN  /\ result' = [divisors |-> divisors]
           /\ IF 0 \in divisors
              THEN error' = "ZeroDivisionError" /\ pc' = "raised"
              ELSE error' = "none" /\ pc' = "returned"
    /\ UNCHANGED <<image, args, result2, interaction, raw_image, transparent_image, disk, trace>>

\* the quotients, once every division is known to be defined
UseQuotients ==
    /\ pc = "returned"
    /\ result2' = [hsv |-> rgb_to_hsv_array(args.pixel),
                   green_mask |-> green_mask_ratio(args.pixel, 12)]
    /\ pc' = "returned2"
    /\ UNCHANGED <<image, args, result, stickerVars>>

ArithNext == EvaluateDivisions \/ UseQuotients

SpecArith == ArithInit /\ [][ArithNext]_vars

\* C21: no arithmetic error is reachable for any channel values:
\* rgb_to_hsv_array divides by delta only where delta # 0 and by max only
\* where max # 0, and the ratio test divides by max(red, blue) + 1 >= 1;
\* black and gray pixels included.
C21_NoDivisionByZero ==
    /\ pc # "raised"
    /\ error = "none"
    /\ pc # "call" =>
          /\ 0 \notin result.divisors
          /\ ratio_divisor(args.pixel) >= 1
          /\ ratio_divisor(args.pixel) \in result.divisors

\* black and a gray have gone through both passes' divisions
C21_Witness ==
    /\ pc = "returned2"
    /\ args.pixel \in {<<0, 0, 0>>, <<100, 100, 100>>}
    /\ result.divisors \subseteq {1, 100, 101}
    /\ result2.hsv.hn = 0

\* ======================================= the dilation and erosion of the mask
MaxWideW == 4

\* rasters up to MaxWideW x MaxH: every cell bg, but for at most MaxSubject
\* cells of fg
WideScenes(mode, pairs) ==
    UNION {{[mode |-> mode, w |-> d[1], h |-> d[2],
             px |-> [i \in Cells(d[1], d[2]) |-> IF i \in S THEN pr[2] ELSE pr[1]]]
            : S \in Arrangements(d[1], d[2]), pr \in pairs}
           : d \in (1..MaxWideW) \X (1..MaxH)}

ClosingScenes ==
    WideScenes("RGBA", {<<Px(Green, 255), Px(Red, 255)>>,
                        <<Px(Red, 255), Px(Green, 255)>>})

ClosingInit ==
    /\ pc = "call"
    /\ image \in ClosingScenes
    /\ args \in [params : {HsvDefaults}, edge_cleanup : BOOLEAN]
    /\ result = None
    /\ result2 = None
    /\ StickerIdle

\* result = remove_green_screen_hsv(image, ...); result2 holds green_mask as
\* the range test gives it and as it is applied
CallHsvKeepingMasks ==
    /\ pc = "call"
    /\ result' = CallHsvWith(image, args.params, args.edge_cleanup)
    /\ result2' =
           [range_test |-> hsv_mask(image, args.params.hue_center, args.params.hue_range, args.params.min_saturation, args.params.min_value, FALSE),
            green_mask |-> hsv_mask(image, args.params.hue_center, args.params.hue_range, args.params.min_saturation, args.params.min_value, args.edge_cleanup)]
    /\ pc' = "returned"
    /\ UNCHANGED <<image, args, stickerVars>>

ClosingNext == CallHsvKeepingMasks

SpecClosing == ClosingInit /\ [][ClosingNext]_vars

\* the edge-adjacent neighbours of a pixel, and whether it has all four
Adjacent(i) == Neighbours(i, image.w, image.h)
Interior(i) == Cardinality(Adjacent(i)) = 4

\* C22: with edge_cleanup on, a pixel that fails the range test and whose
\* four edge-adjacent neighbours all pass it ends up masked, alpha 0.
C22_IsolatedHoleFilled ==
    (pc = "returned" /\ args.edge_cleanup) =>
        \A i \in DOMAIN image.px :
            (/\ ~result2.range_test[i]
             /\ Interior(i)
             /\ \A j \in Adjacent(i) : result2.range_test[j])
            => (result2.green_mask[i] /\ result.px[i][4] = 0)

\* a red pixel with four green neighbours has been made transparent
C22_Witness ==
    /\ pc = "returned"
    /\ args.edge_cleanup
    /\ \E i \in DOMAIN image.px :
          /\ IsRgb(image, i, Red)
          /\ Interior(i)
          /\ \A j \in Adjacent(i) : IsRgb(image, j, Green)
          /\ result.px[i][4] = 0

\* C23, as stated: the only pixels the cleanup adds to the range-test mask
\* are single unmasked pixels with all four edge-adjacent neighbours masked;
\* a non-green pixel with a non-green edge-adjacent neighbour is never made
\* transparent.
C23_NoNetGrowth ==
    (pc = "returned" /\ args.edge_cleanup) =>
        \A i \in DOMAIN image.px :
            /\ (result2.green_mask[i] /\ ~result2.range_test[i]) =>
                   (Interior(i) /\ \A j \in Adjacent(i) : result2.range_test[j])
            /\ (~result2.range_test[i] /\ \E j \in Adjacent(i) : ~result2.range_test[j]) =>
                   result.px[i][4] # 0

\* the mask after the dilation alone
Dilated(i) == result2.range_test[i] \/ \E j \in Adjacent(i) : result2.range_test[j]

\* C23, amended: the pixels the cleanup adds to the range-test mask are the
\* unmasked pixels, off the outermost rows and columns, that have a masked
\* edge-adjacent neighbour and whose four neighbours are each masked or
\* next to a masked pixel; they need not be single pixels: a non-green
\* pixel with a non-green neighbour is made transparent when both lie in
\* such a place. A non-green pixel with no green neighbour keeps its alpha.
C23_GrowthWithinOnePixel ==
    (pc = "returned" /\ args.edge_cleanup) =>
        \A i \in DOMAIN image.px :
            /\ (result2.green_mask[i] /\ ~result2.range_test[i]) <=>
                   (/\ ~result2.range_test[i]
                    /\ Interior(i)
                    /\ \E j \in Adjacent(i) : result2.range_test[j]
                    /\ \A j \in Adjacent(i) : Dilated(j))
            /\ ~Dilated(i) => result.px[i][4] = image.px[i][4]

\* two adjacent red pixels, surrounded by green, both made transparent
C23_Witness ==
    /\ pc = "returned"
    /\ args.edge_cleanup
    /\ \E i \in DOMAIN image.px : \E j \in Adjacent(i) :
          /\ IsRgb(image, i, Red) /\ IsRgb(image, j, Red)
          /\ result.px[i][4] = 0 /\ result.px[j][4] = 0

\* C24: the cleanup never un-masks a pixel: every pixel that passes the
\* range test, in the outermost rows and columns too, is in the mask after
\* the dilation and the erosion.
C24_MaskSuperset ==
    (pc = "returned" /\ args.edge_cleanup) =>
        \A i \in DOMAIN image.px :
            result2.range_test[i] => (result2.green_mask[i] /\ result.px[i][4] = 0)

\* ============================ embeddinggemma-sqlite-ollama.py: setup_database
MaxRuns == 3

SAMPLE_TEXTS == <<"sky", "photosynthesis", "rome", "ai", "climate">>

\* the vec_items table in the database file: absent, or present with rows
NoTable == [exists |-> FALSE, rows |-> <<>>]
TableOf(rows) == [exists |-> TRUE, rows |-> rows]

\* one row per text, as the INSERT loop writes them
RowsFor(texts, embeddings) ==
    [k \in 1..Min2(Len(texts), Len(embeddings)) |->
        [content |-> texts[k], embedding |-> embeddings[k]]]

\* ollama.embed(model, input): one embedding per input text
Embed(texts) == [k \in 1..Len(texts) |-> <<"vec", texts[k]>>]
\* embeddings sqlite-vec rejects (not EMBEDDING_DIM floats)
EmbedWrongDim(texts) == [k \in 1..Len(texts) |-> <<"short", texts[k]>>]

\* the file before the first run: no table, an empty table, or a table
\* holding rows of some run of the sample texts
StoredRows(lo, hi) ==
    RowsFor(SubSeq(SAMPLE_TEXTS, lo, hi), Embed(SubSeq(SAMPLE_TEXTS, lo, hi)))

StartTables ==
    {NoTable, TableOf(<<>>)}
    \cup {TableOf(StoredRows(lo, hi)) : lo, hi \in 1..Len(SAMPLE_TEXTS)}

DbInit ==
    /\ pc = "start"
    /\ image = None
    /\ disk \in [vec_items : StartTables]
    /\ args = [run |-> 1, start |-> disk.vec_items]
    /\ result = None
    /\ result2 = None
    /\ interaction = <<>>
    /\ raw_image = None
    /\ transparent_image = None
    /\ error = "none"
    /\ trace = <<>>

\* try: count = SELECT COUNT(*) FROM vec_items; if count > 0: return
\* except sqlite3.OperationalError: pass
CountRows ==
    /\ pc = "start"
    /\ IF disk.vec_items.exists
       THEN /\ result' = [count |-> Len(disk.vec_items.rows)]
            /\ pc' = IF Len(disk.vec_items.rows) > 0 THEN "returned" ELSE "create"
       ELSE /\ result' = None
            /\ pc' = "create"
    /\ UNCHANGED <<image, args, result2, stickerVars>>

\* db.execute("CREATE VIRTUAL TABLE vec_items ..."): raises OperationalError
\* when the table exists; runs outside a transaction, so it is kept
CreateTable ==
    /\ pc = "create"
    /\ IF disk.vec_items.exists
       THEN /\ error' = "OperationalError"
            /\ pc' = "raised"
            /\ UNCHANGED disk
       ELSE /\ disk' = [disk EXCEPT !.vec_items = TableOf(<<>>)]
            /\ pc' = "embed"
            /\ UNCHANGED error
    /\ UNCHANGED <<image, args, result, result2, interaction, raw_image, transparent_image, trace>>

\* embeddings_response = ollama.embed(model=MODEL_NAME, input=SAMPLE_TEXTS)
EmbedTexts ==
    /\ pc = "embed"
    /\ trace' = Append(trace, "embed")
    /\ \/ /\ interaction' \in {Embed(SAMPLE_TEXTS), EmbedWrongDim(SAMPLE_TEXTS)}
          /\ pc' = "insert"
          /\ UNCHANGED error
       \/ /\ error' = "ResponseError"
          /\ pc' = "raised"
          /\ UNCHANGED interaction
    /\ UNCHANGED <<image, args, result, result2, raw_image, transparent_image, disk>>

\* with db: for text, embedding in zip(...): INSERT ...; committed as one
\* transaction, rolled back when an INSERT raises
InsertRows ==
    /\ pc = "insert"
    /\ IF \E k \in DOMAIN interaction : interaction[k][1] # "vec"
       THEN /\ error' = "OperationalError"
            /\ pc' = "raised"
            /\ UNCHANGED disk
       ELSE /\ disk' = [disk EXCEPT !.vec_items =
                           TableOf(disk.vec_items.rows \o RowsFor(SAMPLE_TEXTS, interaction))]
            /\ pc' = "returned"
            /\ UNCHANGED error
    /\ UNCHANGED <<image, args, result, result2, interaction, raw_image, transparent_image, trace>>

\* the script is started again on the same database file
RunAgain ==
    /\ pc \in {"returned", "raised"}
    /\ args.run < MaxRuns
    /\ pc' = "start"
    /\ args' = [run |-> args.run + 1, start |-> disk.vec_items]
    /\ result' = None
    /\ interaction' = <<>>
    /\ error' = "none"
    /\ trace' = <<>>
    /\ UNCHANGED <<image, result2, raw_image, transparent_image, disk>>

DbNext ==
    \/ CountRows
    \/ CreateTable
    \/ EmbedTexts
    \/ InsertRows
    \/ RunAgain

SpecDb == DbInit /\ [][DbNext]_vars

\* C25: whenever vec_items holds no rows at the start (table absent, or
\* present and empty as an earlier failed run leaves it) and the embedding
\* call and the inserts succeed, setup_database returns normally with one
\* row per sample text; when the table holds rows at the start it changes
\* nothing and makes no embedding call.
C25_SetupWheneverEmpty ==
    pc \in {"returned", "raised"} =>
        IF Len(args.start.rows) = 0
        THEN (interaction = Embed(SAMPLE_TEXTS)) \/ (trace = <<>>) =>
                 /\ pc = "returned"
                 /\ disk.vec_items = TableOf(RowsFor(SAMPLE_TEXTS, Embed(SAMPLE_TEXTS)))
        ELSE /\ pc = "returned"
             /\ disk.vec_items = args.start
             /\ trace = <<>>

\* ========================================== gemini-mcp-agent.py: the chat loop
MaxChatTurns == 3

UserInputs == {"find a flat", "book it"}

\* what the graph appends to the messages it was given, on turn n: an answer,
\* or a tool call, the tool's result and an answer
GraphReplies(n) ==
    {<<[role |-> "ai", content |-> <<"answer", n>>]>>,
     <<[role |-> "ai", content |-> <<"tool_call", n>>],
       [role |-> "tool", content |-> <<"tool_result", n>>],
       [role |-> "ai", content |-> <<"answer", n>>]>>}

\* every element of s occurs in t, in the order of s
RECURSIVE ContainsInOrder(_, _)
ContainsInOrder(t, s) ==
    IF s = <<>> THEN TRUE
    ELSE IF t = <<>> THEN FALSE
    ELSE IF Head(t) = Head(s) THEN ContainsInOrder(Tail(t), Tail(s))
    ELSE ContainsInOrder(Tail(t), s)

\* args.inputs is inputs["messages"]; result is the last state streamed;
\* trace is the messages the graph was last called with; interaction is the
\* conversation as printed: every user message and every message of the graph
ChatInit ==
    /\ pc = "prompt"
    /\ image = None
    /\ args = [inputs |-> <<>>, turn |-> 0]
    /\ result = None
    /\ result2 = None
    /\ interaction = <<>>
    /\ raw_image = None
    /\ transparent_image = None
    /\ disk = None
    /\ error = "none"
    /\ trace = <<>>

\* user_input = input("You: "); "exit" leaves the loop, anything else is
\* appended: inputs["messages"].append(("user", user_input))
ReadUserInput ==
    /\ pc = "prompt"
    /\ \/ /\ pc' = "exited"
          /\ UNCHANGED <<args, interaction>>
       \/ /\ args.turn < MaxChatTurns
          /\ \E user_input \in UserInputs :
                LET m == [role |-> "user", content |-> <<user_input, args.turn + 1>>]
                IN  /\ args' = [inputs |-> Append(args.inputs, m), turn |-> args.turn + 1]
                    /\ interaction' = Append(interaction, m)
          /\ pc' = "call"
    /\ UNCHANGED <<image, result, result2, raw_image, transparent_image, disk, error, trace>>

\* async for state in graph.astream(inputs, stream_mode="values"): the last
\* state holds the messages given and the messages the graph produced
CallGraph ==
    /\ pc = "call"
    /\ trace' = args.inputs
    /\ \E reply \in GraphReplies(args.turn) :
          /\ result' = [messages |-> args.inputs \o reply]
          /\ interaction' = interaction \o reply
    /\ pc' = "update"
    /\ UNCHANGED <<image, args, result2, raw_image, transparent_image, disk, error>>

\* inputs["messages"] == state["messages"]: a comparison, its value dropped
UpdateInputs ==
    /\ pc = "update"
    /\ pc' = "prompt"
    /\ UNCHANGED <<image, args, result, result2, interaction, raw_image, transparent_image, disk, error, trace>>

ChatNext == ReadUserInput \/ CallGraph \/ UpdateInputs

SpecChat == ChatInit /\ [][ChatNext]_vars

\* C26: the messages passed to the graph on a turn contain every user
\* message and every agent and tool message of the turns before, in order
\* (and the turn's own user message).
C26_HistoryCarried ==
    pc = "update" =>
        \E k \in 1..Len(interaction) :
            /\ interaction[k] = trace[Len(trace)]
            /\ ContainsInOrder(trace, SubSeq(interaction, 1, k))

\* ===================================== gemini-agent-from-scratch.py: Agent.run
MaxCalls == 2
MaxDepth == 2

\* self.tools, and the names a model may call
ToolNames == {"read_file"}
CallNames == ToolNames \cup {"no_such_tool"}

\* what calling a tool does: it returns, or raises (bad arguments)
ToolOutcomes == {"returns", "raises"}

\* response.function_calls of one model response
FunctionCalls(max) == UNION {[1..k -> CallNames] : k \in 0..max}

\* only the calls to known tools are answered
functions_response_parts_known_only(calls, outcomes) ==
    LET RECURSIVE Collect(_)
        Collect(k) ==
            IF k > Len(calls) THEN <<>>
            ELSE IF calls[k] \in ToolNames
                 THEN <<[functionResponse |->
                           [name |-> calls[k],
                            response |-> IF outcomes[k] = "raises"
                                         THEN [kind |-> "error", value |-> "exception message"]
                                         ELSE [kind |-> "result", value |-> "tool result"]]]>>
                      \o Collect(k + 1)
                 ELSE Collect(k + 1)
    IN  Collect(1)

\* for tool_call in response.function_calls: ... functions_response_parts.append(...)
functions_response_parts(calls, outcomes) ==
    [k \in 1..Len(calls) |->
        [functionResponse |->
            [name |-> calls[k],
             response |->
                 IF calls[k] \in ToolNames
                 THEN IF outcomes[k] = "raises"
                      THEN [kind |-> "error", value |-> "exception message"]
                      ELSE [kind |-> "result", value |-> "tool result"]
                 ELSE [kind |-> "error", value |-> "Tool not found"]]]]

\* args.contents is self.contents; interaction is the response at hand;
\* trace is the outcome of every tool call made, in order; result is what
\* run returned
AgentInit ==
    /\ pc = "idle"
    /\ image = None
    /\ args = [contents |-> <<>>, depth |-> 0]
    /\ result = None
    /\ result2 = None
    /\ interaction = <<>>
    /\ raw_image = None
    /\ transparent_image = None
    /\ disk = None
    /\ error = "none"
    /\ trace = <<>>

\* agent.run(user_input): self.contents.append({"role": "user", "parts": [{"text": contents}]})
RunWithText ==
    /\ pc = "idle"
    /\ args' = [args EXCEPT !.contents = Append(@, [role |-> "user", parts |-> <<[text |-> "user input"]>>])]
    /\ pc' = "generate"
    /\ UNCHANGED <<image, result, result2, stickerVars>>

\* response = generate_content(...); self.contents.append(response.candidates[0].content);
\* without function calls: return response
GenerateContent ==
    /\ pc = "generate"
    /\ \E calls \in FunctionCalls(IF args.depth < MaxDepth THEN MaxCalls ELSE 0) :
          /\ interaction' = calls
          /\ args' = [contents |-> Append(args.contents, [role |-> "model", function_calls |-> calls]),
                      depth |-> args.depth + 1]
          /\ IF calls # <<>>
             THEN pc' = "tools" /\ UNCHANGED result
             ELSE pc' = "returned" /\ result' = [role |-> "model", function_calls |-> calls]
    /\ UNCHANGED <<image, result2, raw_image, transparent_image, disk, error, trace>>

\* the loop over response.function_calls, then self.run(functions_response_parts):
\* self.contents.append({"role": "user", "parts": contents})
HandleFunctionCalls ==
    /\ pc = "tools"
    /\ \E outcomes \in [1..Len(interaction) -> ToolOutcomes] :
          /\ trace' = trace \o [k \in 1..Len(interaction) |->
                                   [name |-> interaction[k],
                                    outcome |-> IF interaction[k] \in ToolNames
                                                THEN outcomes[k] ELSE "not called"]]
          /\ args' = [args EXCEPT !.contents =
                         Append(@, [role |-> "user",
                                    parts |-> functions_response_parts(interaction, outcomes)])]
    /\ pc' = "generate"
    /\ UNCHANGED <<image, result, result2, interaction, raw_image, transparent_image, disk, error>>

AgentNext == RunWithText \/ GenerateContent \/ HandleFunctionCalls

SpecAgent == AgentInit /\ [][AgentNext]_vars

\* the function calls of the model responses before entry i of the history
CallsBefore(i) ==
    LET RECURSIVE Count(_)
        Count(j) ==
            IF j = 0 THEN 0
            ELSE Count(j - 1) + (IF args.contents[j].role = "model"
                                 THEN Len(args.contents[j].function_calls) ELSE 0)
    IN  Count(i - 1)

\* C27: every function call of a model response is answered exactly once:
\* the entry after a model response with k calls is one user entry of k
\* functionResponse parts, in the calls' order and with their names; an
\* unknown tool gives {error: 'Tool not found'}, a tool that raises gives
\* {error: <message>}; neither aborts run, and run returns only with a model
\* response without function calls.
C27_EveryCallAnswered ==
    /\ error = "none"
    /\ \A i \in DOMAIN args.contents :
          LET entry == args.contents[i]
          IN  (entry.role = "model" /\ entry.function_calls # <<>>) =>
                 /\ i = Len(args.contents) => pc = "tools"
                 /\ i < Len(args.contents) =>
                       LET next == args.contents[i + 1]
                           k == Len(entry.function_calls)
                       IN  /\ next.role = "user"
                           /\ Len(next.parts) = k
                           /\ \A c \in 1..k :
                                 LET r == next.parts[c].functionResponse
                                     o == trace[CallsBefore(i) + c]
                                 IN  /\ r.name = entry.function_calls[c]
                                     /\ o.name = r.name
                                     /\ o.outcome = "not called" <=>
                                            r.response = [kind |-> "error", value |-> "Tool not found"]
                                     /\ o.outcome = "raises" <=>
                                            r.response = [kind |-> "error", value |-> "exception message"]
                                     /\ o.outcome = "returns" <=> r.response.kind = "result"
    /\ pc = "returned" =>
          /\ result = args.contents[Len(args.contents)]
          /\ result.function_calls = <<>>

\* run has returned after a response that called an unknown tool and a tool
\* that raised
C27_Witness ==
    /\ pc = "returned"
    /\ \E i \in DOMAIN trace : trace[i].outcome = "not called"
    /\ \E i \in DOMAIN trace : trace[i].outcome = "raises"
    /\ \E i \in DOMAIN args.contents :
          /\ args.contents[i].role = "model"
          /\ Len(args.contents[i].function_calls) = 2

\* ================================== interactions-computer-use.py: run_agent
MaxTurns == 2
MaxActions == 2

\* the function calls a model response may hold: name and the
\* safety_decision among its arguments
ActionKinds ==
    {[name |-> "click_at", safety |-> "none"],
     [name |-> "navigate", safety |-> "require_confirmation"],
     [name |-> "navigate", safety |-> "regular"]}

\* what the user may type at "Proceed? [y/N]: ", and response.strip().lower()
Answers == {"y", " Yes ", "N", ""}
StripLower(a) == CASE a = " Yes " -> "yes" [] a = "N" -> "n" [] OTHER -> a

\* interaction.outputs, function calls only, of the model call of a turn
CallsOf(turn) ==
    UNION {{[k \in 1..n |-> [id |-> <<turn, k>>, name |-> kinds[k].name, safety |-> kinds[k].safety]]
            : kinds \in [1..n -> ActionKinds]} : n \in 0..MaxActions}

Responses(turn) ==
    {[id |-> turn, status |-> "completed", calls |-> <<>>]}
    \cup {[id |-> turn, status |-> "requires_action", calls |-> c] : c \in CallsOf(turn)}

\* every confirmation asked for is taken as given
check_safety_always(fc, answer) ==
    IF fc.safety # "require_confirmation"
    THEN [proceed |-> TRUE, needs_ack |-> FALSE, prompted |-> FALSE]
    ELSE [proceed |-> TRUE, needs_ack |-> TRUE, prompted |-> TRUE]

\* check_safety(function_call) -> (proceed, needs_ack); prompted tells
\* whether input() was called
check_safety(fc, answer) ==
    IF fc.safety # "require_confirmation"
    THEN [proceed |-> TRUE, needs_ack |-> FALSE, prompted |-> FALSE]
    ELSE IF StripLower(answer) \in {"y", "yes"}
         THEN [proceed |-> TRUE, needs_ack |-> TRUE, prompted |-> TRUE]
         ELSE [proceed |-> FALSE, needs_ack |-> FALSE, prompted |-> TRUE]

\* the page URL after execute_action
UrlAfter(url, fc) == IF fc.name = "navigate" THEN <<"page of", fc.id>> ELSE url

\* result = {"url": page.url}; if needs_ack: result["safety_acknowledgement"] = True
ActionResult(url, needs_ack) ==
    IF needs_ack THEN [url |-> url, safety_acknowledgement |-> TRUE] ELSE [url |-> url]

\* the function_result appended for a blocked call
BlockedResult(fc) ==
    [type |-> "function_result", call_id |-> fc.id, name |-> fc.name,
     result |-> <<[type |-> "text", text |-> "Error: Blocked by user"]>>, is_error |-> TRUE]

\* the function_result appended for an executed call: "result": "result"
ExecutedResult(fc, action_result) ==
    [type |-> "function_result", call_id |-> fc.id, name |-> fc.name, result |-> [str |-> "result"]]

\* args is the call's arguments; result2 the locals turn, previous_id, the
\* index of the call at hand, the input of the last model call and how the
\* loop was left; result is function_results; disk the browser; trace what
\* was done with each call of the turn
AgentCUInit ==
    /\ pc = "loop"
    /\ image = None
    /\ args \in [max_turns : 0..MaxTurns]
    /\ result = <<>>
    /\ result2 = [turn |-> 0, previous_id |-> 0, k |-> 0, input |-> <<>>, left_by |-> "none", warned |-> FALSE]
    /\ interaction = None
    /\ raw_image = None
    /\ transparent_image = None
    /\ disk = [browser |-> "open", playwright |-> "started", url |-> <<"start_url">>]
    /\ error = "none"
    /\ trace = <<>>

\* the loop without its test of turn against max_turns
CallModel_unguarded ==
    /\ pc = "loop"
    /\ \E response \in Responses(result2.turn + 1) :
          /\ interaction' = response
          /\ result2' = [turn |-> result2.turn + 1,
                         previous_id |-> response.id,
                         k |-> 1,
                         input |-> IF result2.previous_id = 0
                                   THEN <<[type |-> "text"], [type |-> "image"]>>
                                   ELSE result \o <<[type |-> "image"]>>,
                         left_by |-> IF response.status = "completed" THEN "completed"
                                     ELSE IF response.calls = <<>> THEN "no function calls"
                                     ELSE "none",
                         warned |-> FALSE]
          /\ pc' = IF response.status = "completed" \/ response.calls = <<>>
                   THEN "closing" ELSE "act"
          /\ result' = IF response.status = "completed" \/ response.calls = <<>>
                       THEN result ELSE <<>>
          /\ trace' = IF response.status = "completed" \/ response.calls = <<>>
                      THEN trace ELSE <<>>
    /\ UNCHANGED <<image, args, raw_image, transparent_image, disk, error>>

\* while turn < max_turns: turn += 1; build the input; call the model;
\* break when completed or when there is no function call
CallModel ==
    /\ pc = "loop"
    /\ result2.turn < args.max_turns
    /\ \E response \in Responses(result2.turn + 1) :
          /\ interaction' = response
          /\ result2' = [turn |-> result2.turn + 1,
                         previous_id |-> response.id,
                         k |-> 1,
                         input |-> IF result2.previous_id = 0
                                   THEN <<[type |-> "text"], [type |-> "image"]>>
                                   ELSE result \o <<[type |-> "image"]>>,
                         left_by |-> IF response.status = "completed" THEN "completed"
                                     ELSE IF response.calls = <<>> THEN "no function calls"
                                     ELSE "none",
                         warned |-> FALSE]
          /\ pc' = IF response.status = "completed" \/ response.calls = <<>>
                   THEN "closing" ELSE "act"
          /\ result' = IF response.status = "completed" \/ response.calls = <<>>
                       THEN result ELSE <<>>
          /\ trace' = IF response.status = "completed" \/ response.calls = <<>>
                      THEN trace ELSE <<>>
    /\ UNCHANGED <<image, args, raw_image, transparent_image, disk, error>>

\* while ... else: print("Max turns reached")
MaxTurnsReached ==
    /\ pc = "loop"
    /\ ~(result2.turn < args.max_turns)
    /\ result2' = [result2 EXCEPT !.left_by = "max_turns", !.warned = TRUE]
    /\ pc' = "closing"
    /\ UNCHANGED <<image, args, result, interaction, raw_image, transparent_image, disk, error, trace>>

\* one round of "for fc in function_calls": check_safety, then the blocked
\* result, or execute_action and the result; execute_action may raise
\* (page.wait_for_load_state times out)
HandleFunctionCall ==
    /\ pc = "act"
    /\ LET fc == interaction.calls[result2.k]
           last == result2.k = Len(interaction.calls)
       IN  \E answer \in Answers :
             LET safe == check_safety(fc, answer)
                 done == [call_id |-> fc.id, name |-> fc.name, safety |-> fc.safety,
                          prompted |-> safe.prompted,
                          answer |-> IF safe.prompted THEN answer ELSE "not asked",
                          executed |-> safe.proceed,
                          url |-> IF safe.proceed THEN UrlAfter(disk.url, fc) ELSE disk.url]
             IN  \/ /\ ~safe.proceed
                    /\ result' = Append(result, BlockedResult(fc))
                    /\ trace' = Append(trace, done)
                    /\ result2' = [result2 EXCEPT !.k = @ + 1]
                    /\ pc' = IF last THEN "loop" ELSE "act"
                    /\ UNCHANGED <<disk, error>>
                 \/ /\ safe.proceed
                    /\ disk' = [disk EXCEPT !.url = UrlAfter(disk.url, fc)]
                    /\ result' = Append(result, ExecutedResult(fc, ActionResult(disk'.url, safe.needs_ack)))
                    /\ trace' = Append(trace, done)
                    /\ result2' = [result2 EXCEPT !.k = @ + 1]
                    /\ pc' = IF last THEN "loop" ELSE "act"
                    /\ UNCHANGED error
                 \/ /\ safe.proceed
                    /\ fc.name = "navigate"
                    /\ disk' = [disk EXCEPT !.url = UrlAfter(disk.url, fc)]
                    /\ trace' = Append(trace, done)
                    /\ error' = "TimeoutError"
                    /\ pc' = "raised"
                    /\ UNCHANGED <<result, result2>>
    /\ UNCHANGED <<image, args, interaction, raw_image, transparent_image>>

\* browser.close(); playwright.stop()
CloseBrowser ==
    /\ pc = "closing"
    /\ disk' = [disk EXCEPT !.browser = "closed", !.playwright = "stopped"]
    /\ pc' = "done"
    /\ UNCHANGED <<image, args, result, result2, interaction, raw_image, transparent_image, error, trace>>

AgentCUNext ==
    \/ CallModel
    \/ MaxTurnsReached
    \/ HandleFunctionCall
    \/ CloseBrowser

SpecComputerUse == AgentCUInit /\ [][AgentCUNext]_vars

SpecComputerUseFair == SpecComputerUse /\ WF_vars(AgentCUNext)

\* the function_results recorded for a call
ResultsFor(call_id) == {i \in DOMAIN result : result[i].call_id = call_id}

\* C28: a call whose safety decision is require_confirmation is executed on
\* the browser only when the user's answer is y or yes; on any other answer
\* it is not executed and exactly one function_result, with is_error true
\* and the text 'Error: Blocked by user', is recorded for its call_id; a
\* call without that decision is executed without a prompt.
C28_ConfirmationGate ==
    pc \in {"act", "loop", "raised"} =>
        \A j \in DOMAIN trace :
            LET t == trace[j]
            IN  IF t.safety = "require_confirmation"
                THEN /\ t.prompted
                     /\ t.executed <=> StripLower(t.answer) \in {"y", "yes"}
                     /\ ~t.executed =>
                           /\ disk.url # <<"page of", t.call_id>>
                           /\ Cardinality(ResultsFor(t.call_id)) = 1
                           /\ \A i \in ResultsFor(t.call_id) :
                                 /\ "is_error" \in DOMAIN result[i]
                                 /\ result[i].is_error
                                 /\ result[i].result = <<[type |-> "text", text |-> "Error: Blocked by user"]>>
                ELSE /\ ~t.prompted
                     /\ t.executed
                     /\ t.name = "navigate" => \E k \in j..Len(trace) : trace[k].url = <<"page of", t.call_id>>

\* a turn with a confirmed and a refused call
C28_Witness ==
    /\ pc = "loop"
    /\ \E i, j \in DOMAIN trace :
          /\ trace[i].answer = " Yes " /\ trace[i].executed
          /\ trace[j].answer = "N" /\ ~trace[j].executed
          /\ Cardinality(ResultsFor(trace[j].call_id)) = 1

\* C29: the function_result recorded for an executed call carries the
\* result built for it: the page URL after the action and, when the user
\* confirmed, safety_acknowledgement = true.
C29_ResultCarried ==
    pc \in {"act", "loop"} =>
        \A j \in DOMAIN trace :
            trace[j].executed =>
                result[j].result = ActionResult(trace[j].url, trace[j].prompted)

\* C30: the model is called at most max_turns times; the loop is left when
\* the status is completed, when a response holds no function call, or when
\* turn has reached max_turns, then with the warning; after each of these
\* the browser is closed and playwright stopped; and run_agent ends.
C30_Terminates ==
    /\ [](/\ result2.turn <= args.max_turns
          /\ result2.previous_id <= args.max_turns
          /\ pc \in {"closing", "done"} =>
                /\ result2.left_by \in {"completed", "no function calls", "max_turns"}
                /\ result2.left_by = "completed" => interaction.status = "completed"
                /\ result2.left_by = "no function calls" => interaction.calls = <<>>
                /\ result2.left_by = "max_turns" => result2.turn = args.max_turns
                /\ result2.warned <=> result2.left_by = "max_turns"
          /\ pc = "done" => (disk.browser = "closed" /\ disk.playwright = "stopped"))
    /\ <>(pc \in {"done", "raised"})

\* run_agent has ended after max_turns turns that each held function calls
C30_Witness ==
    /\ pc = "done"
    /\ args.max_turns = 2
    /\ result2.turn = 2
    /\ result2.warned
    /\ disk.browser = "closed"

====
